---- MODULE Spec2Model ----
(***************************************************************************)
(* Resource lifecycle and binding-state model of the gpu crate.            *)
(*                                                                         *)
(* The application is one thread that creates Device Contexts, creates GPU *)
(* resources against them, operates on the resources and drops resources   *)
(* and contexts in any order the borrow checker admits.  The device (the   *)
(* OpenGL driver behind glow / gl) is modelled per context: binding points *)
(* and object stores.  Every device call an operation issues is recorded   *)
(* in last.calls together with the binding it executed under.              *)
(***************************************************************************)
EXTENDS Integers, Sequences, FiniteSets, TLC

VARIABLES ctx, current, res, dev, last, hist, panicked, pc

vars == <<ctx, current, res, dev, last, hist, panicked, pc>>

(***************************************************************************)
(* Bounds of the model.                                                    *)
(***************************************************************************)
MaxCtx == 2
MaxRes == 2
MaxBytes == 3
MaxSlot == 1

CtxIds == 1..MaxCtx
\* the threads of the program that share one context; thread t works on Buffer t
Threads == 1..MaxRes
\* a thread outside any Buffer method
Idle == [op |-> "idle", arg |-> <<>>, cut |-> FALSE]
ResIds == 1..MaxRes
Handles == 1..MaxRes
Addrs == 1..MaxCtx
Byte == {0, 1}

\* the attribute slots of a vertex array object
Slots == 0..MaxSlot

BoundedSeq(S, n) == UNION {[1..k -> S] : k \in 0..n}

(***************************************************************************)
(* Machine integers.  A usize is four 16-bit limbs, most significant       *)
(* first; an i32 is two.  The casts are the ones the source writes.        *)
(***************************************************************************)
Limb == 2^16

\* the usize with value n, for 0 <= n < 2^31
Usize(n) == <<0, 0, n \div Limb, n % Limb>>

\* `x as i32` on a usize: keeps the low 32 bits
UsizeAsI32(u) == <<u[3], u[4]>>

I32Negative(i) == i[1] >= Limb \div 2

\* value of a non-negative i32
I32Value(i) == i[1] * Limb + i[2]

\* the i32 with value n, for 0 <= n < 2^31
I32(n) == <<n \div Limb, n % Limb>>

\* `x as usize` on an i32: sign-extends
I32AsUsize(i) == IF I32Negative(i) THEN <<Limb - 1, Limb - 1, i[1], i[2]>>
                                   ELSE <<0, 0, i[1], i[2]>>

\* byte sizes an application asks for: small ones, 2^31 and 2^32 + 1
Sizes == {Usize(n) : n \in 0..MaxBytes} \cup {<<0, 0, Limb \div 2, 0>>, <<0, 1, 0, 1>>}

(***************************************************************************)
(* Program state.                                                          *)
(*   ctx[c]    a Device Context: "unborn", "alive" or "dead", the address  *)
(*             it lives at and the result of its last make_current         *)
(*   current   the context current on the thread (0: none)                 *)
(*   res[r]    an application-level resource value                         *)
(*   dev[c]    the device state behind context c                           *)
(*   last      the last step: for a query its name, resource and result;   *)
(*             for every step what was observed of its device calls        *)
(*   hist[r]   what the application has last written to resource r, and    *)
(*             the delete calls issued for it so far                       *)
(*   panicked  the thread is unwinding from a panic                        *)
(***************************************************************************)
NoWeak == [addr |-> 0, gen |-> 0]

NoRes == [id |-> 0, kind |-> "none", st |-> "unborn", owner |-> 0, weak |-> NoWeak,
          handle |-> 0, chans |-> 0, dims |-> <<0, 0, 0>>, vertices |-> 0]

NoCtx == [st |-> "unborn", addr |-> 0, act |-> "none"]

NoBuf == [live |-> FALSE, bytes |-> <<>>]
NoTex == [live |-> FALSE, immutable |-> FALSE, dims |-> <<0, 0, 0>>, chans |-> 0, data |-> <<>>]
NoRb == [live |-> FALSE, dims |-> <<0, 0>>]
NoObj == [live |-> FALSE]
NoSlot == [enabled |-> FALSE, buf |-> 0, n |-> 0]
NoVao == [live |-> FALSE, slots |-> [j \in Slots |-> NoSlot]]

EmptyDev == [arrayBuf |-> 0, tex3d |-> 0, rbBind |-> 0, vaoBind |-> 0,
             buffers |-> [h \in Handles |-> NoBuf],
             textures |-> [h \in Handles |-> NoTex],
             rbs |-> [h \in Handles |-> NoRb],
             vaos |-> [h \in Handles |-> NoVao],
             shaders |-> [h \in Handles |-> NoObj]]

NoHist == [dels |-> 0, orphan |-> FALSE,
           wr |-> "none", wsz |-> 0, wdata |-> <<>>, wsize |-> Usize(0),
           tdims |-> <<0, 0, 0>>, tchans |-> 0]

NoLast == [op |-> "none", by |-> 0, sz |-> 0, ret |-> <<>>,
           late |-> FALSE, stray |-> FALSE, post |-> FALSE,
           n |-> 0, rep |-> FALSE, same |-> FALSE, cut |-> FALSE]

CtxAlive(c) == c \in CtxIds /\ ctx[c].st = "alive"

\* the next application-level value: resources are numbered in creation order
NextRes == IF \E r \in ResIds : res[r].st = "unborn"
           THEN CHOOSE r \in ResIds : res[r].st = "unborn" /\ \A q \in 1..(r - 1) : res[q].st # "unborn"
           ELSE 0

NextCtx == IF \E c \in CtxIds : ctx[c].st = "unborn"
           THEN CHOOSE c \in CtxIds : ctx[c].st = "unborn" /\ \A q \in 1..(c - 1) : ctx[q].st # "unborn"
           ELSE 0

(***************************************************************************)
(* Device calls.  m = [dev, calls] is the machine state an operation       *)
(* threads through its calls.  A call made through a connection whose      *)
(* context is gone changes no device state, and is still recorded.         *)
(***************************************************************************)
Machine == [dev |-> dev, calls |-> <<>>]

D(m, c) == IF c \in CtxIds THEN m.dev[c] ELSE EmptyDev

\* a recorded call: the function, the issuing resource and its handle, the
\* handle held by the binding point the call executed against (the resource's
\* own handle for calls that take the handle as an argument), and whether the
\* issuing resource's owning context was gone
Call(self, fn, bound) == [fn |-> fn, by |-> self.id, h |-> self.handle, bound |-> bound,
                          late |-> ~CtxAlive(self.owner)]

Issue(m, c, call, d) == [dev |-> IF CtxAlive(c) THEN [m.dev EXCEPT ![c] = d] ELSE m.dev,
                         calls |-> Append(m.calls, call)]

\* glGen* / glCreate* hand out a name the device does not use.  The device
\* treats names only by equality, so the model takes the lowest unused one.
FreeName(store) == CHOOSE h \in Handles : ~store[h].live /\ \A g \in 1..(h - 1) : store[g].live

(***************************************************************************)
(* Device Context (src/context/platform/desktop.rs).                       *)
(***************************************************************************)
\* Context::new
Context_new(a) ==
    /\ ~panicked
    /\ NextCtx # 0
    /\ \A c \in CtxIds : ctx[c].st = "alive" => ctx[c].addr # a
    /\ ctx' = [ctx EXCEPT ![NextCtx] = [st |-> "alive", addr |-> a, act |-> "none"]]
    /\ last' = NoLast
    /\ UNCHANGED <<current, res, dev, hist, panicked, pc>>

\* Context::make_current: the platform activates the context or reports an error
Context_make_current(c, ok) ==
    /\ ~panicked
    /\ CtxAlive(c)
    /\ current' = IF ok THEN c ELSE current
    /\ ctx' = [ctx EXCEPT ![c].act = IF ok THEN "ok" ELSE "failed"]
    /\ last' = NoLast
    /\ UNCHANGED <<res, dev, hist, panicked, pc>>

\* kinds whose value borrows the context (&'context Context): the context
\* cannot be dropped while such a value lives
Borrows(kind) == kind \in {"Buffer", "FragmentShader"}

\* the context value goes out of scope
Context_drop(c) ==
    /\ CtxAlive(c)
    /\ \A r \in ResIds : res[r].st = "live" /\ Borrows(res[r].kind) => res[r].owner # c
    /\ ctx' = [ctx EXCEPT ![c].st = "dead", ![c].act = "none"]
    /\ dev' = [dev EXCEPT ![c] = EmptyDev]
    /\ current' = IF current = c THEN 0 ELSE current
    /\ last' = NoLast
    /\ UNCHANGED <<res, hist, panicked, pc>>

(***************************************************************************)
(* Observation of a finished operation: the calls it issued are folded     *)
(* into hist of the issuing resource.                                      *)
(***************************************************************************)
IsDelete(fn) == fn \in {"delete_buffer", "delete_renderbuffer", "delete_vertex_array",
                        "delete_shader", "DeleteTextures"}

Deletes(calls) == Cardinality({i \in DOMAIN calls : IsDelete(calls[i].fn)})

\* calls that act on whatever object the binding point holds
OnBinding(fn) == fn \in {"buffer_data_u8_slice", "buffer_data_size", "get_buffer_parameter_i32",
                         "get_buffer_sub_data", "TexStorage3D", "TexImage3D",
                         "GetTexLevelParameteriv", "GetTexImage", "renderbuffer_storage",
                         "enable_vertex_attrib_array", "vertex_attrib_pointer_f32"}

\* the delete calls issued for a resource so far, counted up to 2
Observed(h, calls) ==
    [h EXCEPT !.dels = IF @ + Deletes(calls) > 2 THEN 2 ELSE @ + Deletes(calls)]

\* what a step shows of the calls it issued for a resource whose history is
\* h (n, rep and same are filled in by the steps that observe them: the
\* number of device calls issued, whether the step repeats the step before
\* it, and whether it left device and value as they were).  late: a call was issued after the resource's owning context was gone;
\* stray: a call acted on a binding point that held another handle; post: a
\* call was issued after the resource's delete call
Step(op, r, sz, ret, h, calls) ==
    [op |-> op, by |-> r, sz |-> sz, ret |-> ret,
     late |-> \E i \in DOMAIN calls : calls[i].late,
     stray |-> \E i \in DOMAIN calls : OnBinding(calls[i].fn) /\ calls[i].bound # calls[i].h,
     post |-> \/ (h.dels > 0 /\ calls # <<>>)
              \/ \E i, j \in DOMAIN calls : i < j /\ IsDelete(calls[i].fn),
     n |-> 0, rep |-> FALSE, same |-> FALSE, cut |-> FALSE]

\* a step whose result the application does not keep
Quiet(h, calls) == Step("none", 0, 0, <<>>, h, calls)

(***************************************************************************)
(* Byte views of typed slices (data::as_u8_slice, data::as_u8_mut_slice).  *)
(* An element of a type of size sz is a tuple of sz bytes.                 *)
(***************************************************************************)
RECURSIVE as_u8_slice(_)
as_u8_slice(data) == IF data = <<>> THEN <<>> ELSE Head(data) \o as_u8_slice(Tail(data))

\* the typed view of a byte vector that holds Len(bytes) \div sz elements
FromBytes(bytes, sz) == [i \in 1..(Len(bytes) \div sz) |-> SubSeq(bytes, (i - 1) * sz + 1, i * sz)]

ElemSizes == {1, 2}

\* the slices of elements of size sz an application uploads
Slices(sz) == BoundedSeq([1..sz -> Byte], MaxBytes \div sz)

\* what uninitialised memory may hold: some byte pattern (the model draws it
\* from the constant fills)
Junk == {[i \in 1..(2 * MaxBytes + 2) |-> b] : b \in Byte}

Prefix(s, n) == SubSeq(s, 1, n)

(***************************************************************************)
(* The device's buffer calls, as glow issues them.                         *)
(***************************************************************************)
\* glBufferData with a data pointer: replaces the store of the bound buffer
buffer_data_u8_slice(d, bytes) ==
    IF d.arrayBuf = 0 THEN d
    ELSE [d EXCEPT !.buffers[d.arrayBuf].bytes = bytes]

\* glBufferData without data: a negative size is GL_INVALID_VALUE and changes
\* nothing; the new store's contents are undefined
buffer_data_size(d, size, junk) ==
    IF d.arrayBuf = 0 \/ I32Negative(size) THEN d
    ELSE [d EXCEPT !.buffers[d.arrayBuf].bytes = Prefix(junk, I32Value(size))]

\* glGetBufferParameteriv(BUFFER_SIZE)
get_buffer_parameter_i32(d) ==
    IF d.arrayBuf = 0 THEN I32(0) ELSE I32(Len(d.buffers[d.arrayBuf].bytes))

\* glGetBufferSubData from offset 0 into dst: reading past the store is
\* GL_INVALID_VALUE and leaves dst as it was
get_buffer_sub_data(d, dst) ==
    IF d.arrayBuf = 0 \/ Len(dst) > Len(d.buffers[d.arrayBuf].bytes) THEN dst
    ELSE Prefix(d.buffers[d.arrayBuf].bytes, Len(dst))

\* glDeleteBuffers: the name is free again; a deleted bound buffer is unbound
delete_buffer(d, h) ==
    IF h \notin Handles THEN d
    ELSE [d EXCEPT !.buffers[h] = NoBuf, !.arrayBuf = IF @ = h THEN 0 ELSE @]

(***************************************************************************)
(* Buffer (src/data/buffer.rs).  Each method maps a machine state to the   *)
(* machine state after its device calls (and its result).                  *)
(***************************************************************************)
\* Buffer::new: create_buffer hands out a name h the device does not use
Buffer_new(m, c, r, h) ==
    LET self == [NoRes EXCEPT !.id = r, !.kind = "Buffer", !.st = "live", !.owner = c, !.handle = h]
    IN  [m |-> Issue(m, c, Call(self, "create_buffer", h),
                     [D(m, c) EXCEPT !.buffers[h] = [live |-> TRUE, bytes |-> <<>>]]),
         self |-> self]

\* a faulty variant: bind() leaves the binding point as it finds it
Buffer_bind_stale(m, self) == m

\* Buffer::bind
Buffer_bind(m, self) ==
    LET c == self.owner
    IN  Issue(m, c, Call(self, "bind_buffer", self.handle),
              [D(m, c) EXCEPT !.arrayBuf = self.handle])

\* Buffer::size, the query that follows the bind
Buffer_size_call(m, self) ==
    LET c == self.owner
        d == D(m, c)
    IN  [m |-> Issue(m, c, Call(self, "get_buffer_parameter_i32", d.arrayBuf), d),
         ret |-> I32AsUsize(get_buffer_parameter_i32(d))]

\* a faulty variant: size() clears the binding point once it has its answer
Buffer_size_unbinding(m, self) ==
    LET c == self.owner
        s == Buffer_size_call(Buffer_bind(m, self), self)
    IN  [m |-> Issue(s.m, c, Call(self, "bind_buffer", 0), [D(s.m, c) EXCEPT !.arrayBuf = 0]),
         ret |-> s.ret]

\* Buffer::size
Buffer_size(m, self) == Buffer_size_call(Buffer_bind(m, self), self)

\* a faulty variant: the upload binds the buffer again in the same step
Buffer_set_data_call_rebinding(m, self, data) ==
    LET c == self.owner
        m1 == Buffer_bind(m, self)
        d == D(m1, c)
    IN  Issue(m1, c, Call(self, "buffer_data_u8_slice", d.arrayBuf),
              buffer_data_u8_slice(d, as_u8_slice(data)))

\* Buffer::set_data, the upload that follows the bind
Buffer_set_data_call(m, self, data) ==
    LET c == self.owner
        d == D(m, c)
        slice == as_u8_slice(data)
    IN  Issue(m, c, Call(self, "buffer_data_u8_slice", d.arrayBuf), buffer_data_u8_slice(d, slice))

\* Buffer::set_data
Buffer_set_data(m, self, data) == Buffer_set_data_call(Buffer_bind(m, self), self, data)

\* value of a usize below 2^31 (every size() result that came from a
\* non-negative i32)
UsizeValue(u) == u[3] * Limb + u[4]

\* a faulty variant: the read-back vector is sized in bytes, not in elements
Buffer_data_sized_in_bytes(m, self, sz, junk) ==
    LET c == self.owner
        m1 == Buffer_bind(m, self)
        s == Buffer_size(m1, self)
        capacity == UsizeValue(s.ret)
        d == D(s.m, c)
        bytes == get_buffer_sub_data(d, Prefix(junk, capacity * sz))
    IN  [m |-> Issue(s.m, c, Call(self, "get_buffer_sub_data", d.arrayBuf), d),
         ret |-> FromBytes(bytes, sz)]

\* a faulty variant: the element count is rounded up
Buffer_data_rounding_up(m, self, sz, junk) ==
    LET c == self.owner
        m1 == Buffer_bind(m, self)
        s == Buffer_size(m1, self)
        capacity == (UsizeValue(s.ret) + sz - 1) \div sz
        d == D(s.m, c)
        bytes == get_buffer_sub_data(d, Prefix(junk, capacity * sz))
    IN  [m |-> Issue(s.m, c, Call(self, "get_buffer_sub_data", d.arrayBuf), d),
         ret |-> FromBytes(bytes, sz)]

\* Buffer::data::<T>() with size_of::<T>() = sz; junk is what the vector's
\* uninitialised storage holds
Buffer_data(m, self, sz, junk) ==
    LET c == self.owner
        m1 == Buffer_bind(m, self)
        s == Buffer_size(m1, self)
        capacity == UsizeValue(s.ret) \div sz
        d == D(s.m, c)
        bytes == get_buffer_sub_data(d, Prefix(junk, capacity * sz))
    IN  [m |-> Issue(s.m, c, Call(self, "get_buffer_sub_data", d.arrayBuf), d),
         ret |-> FromBytes(bytes, sz)]

\* Buffer::reallocate, the storage request that follows the bind
Buffer_reallocate_call(m, self, size, junk) ==
    LET c == self.owner
        d == D(m, c)
    IN  Issue(m, c, Call(self, "buffer_data_size", d.arrayBuf),
              buffer_data_size(d, UsizeAsI32(size), junk))

\* Buffer::reallocate
Buffer_reallocate(m, self, size, junk) ==
    Buffer_reallocate_call(Buffer_bind(m, self), self, size, junk)

\* Buffer::from_data
Buffer_from_data(m, c, r, h, data) ==
    LET b == Buffer_new(m, c, r, h)
    IN  [m |-> Buffer_set_data(b.m, b.self, data), self |-> b.self]

\* a faulty variant: storage is requested whatever n_bytes is
Buffer_allocate_eager(m, c, r, h, n_bytes, junk) ==
    LET b == Buffer_new(m, c, r, h)
    IN  [m |-> Buffer_reallocate(b.m, b.self, n_bytes, junk), self |-> b.self]

\* Buffer::allocate
Buffer_allocate(m, c, r, h, n_bytes, junk) ==
    LET b == Buffer_new(m, c, r, h)
    IN  [m |-> IF n_bytes # Usize(0) THEN Buffer_reallocate(b.m, b.self, n_bytes, junk) ELSE b.m,
         self |-> b.self]

\* a faulty variant: the destructor leaks the buffer
Buffer_drop_leaking(m, self) == m

\* Drop for Buffer
Buffer_drop(m, self) ==
    Issue(m, self.owner, Call(self, "delete_buffer", self.handle),
          delete_buffer(D(m, self.owner), self.handle))

(***************************************************************************)
(* The application's steps on buffers.                                     *)
(***************************************************************************)
LiveRes(r, kind) == r \in ResIds /\ res[r].st = "live" /\ res[r].kind = kind

\* what the application has written to a buffer last
Wrote(h, kind, sz, data, size) ==
    [h EXCEPT !.wr = kind, !.wsz = sz, !.wdata = data, !.wsize = size]

\* the step of a constructor: b = [m, self]
Created(b, h) ==
    /\ res' = [res EXCEPT ![b.self.id] = b.self]
    /\ dev' = b.m.dev
    /\ hist' = [hist EXCEPT ![b.self.id] = Observed(h, b.m.calls)]
    /\ last' = Quiet(h, b.m.calls)
    /\ UNCHANGED <<ctx, current, panicked, pc>>

\* the step of a constructor the application watches: the handle the value
\* got and the number of device calls issued
CreatedBy(op, b, h) ==
    /\ res' = [res EXCEPT ![b.self.id] = b.self]
    /\ dev' = b.m.dev
    /\ hist' = [hist EXCEPT ![b.self.id] = Observed(h, b.m.calls)]
    /\ last' = [Step(op, b.self.id, b.self.handle, <<>>, h, b.m.calls) EXCEPT !.n = Len(b.m.calls)]
    /\ UNCHANGED <<ctx, current, panicked, pc>>

\* the step of a method of resource r that keeps the resource value as it is
Operated(r, m, op, sz, ret, h) ==
    /\ dev' = m.dev
    /\ hist' = [hist EXCEPT ![r] = Observed(h, m.calls)]
    /\ last' = IF op = "" THEN Quiet(hist[r], m.calls) ELSE Step(op, r, sz, ret, hist[r], m.calls)
    /\ UNCHANGED <<ctx, current, res, panicked, pc>>

\* a dropped value's contents are no longer of interest
\* (orphan: the value was dropped after its owning context)
Forget(h) == [NoHist EXCEPT !.dels = h.dels]

\* the step of a destructor
Dropped(r, m) ==
    /\ res' = [res EXCEPT ![r] = [NoRes EXCEPT !.id = r, !.kind = res[r].kind, !.st = "dropped",
                                                !.owner = res[r].owner]]
    /\ dev' = m.dev
    /\ hist' = [hist EXCEPT ![r] = [Observed(Forget(hist[r]), m.calls)
                                       EXCEPT !.orphan = ~CtxAlive(res[r].owner)]]
    /\ last' = Quiet(hist[r], m.calls)
    /\ UNCHANGED <<ctx, current, panicked, pc>>

\* the step of a destructor the application watches: the handle the value
\* had, the number of device calls issued and whether the device state stayed
DroppedBy(op, r, m) ==
    /\ res' = [res EXCEPT ![r] = [NoRes EXCEPT !.id = r, !.kind = res[r].kind, !.st = "dropped",
                                                !.owner = res[r].owner]]
    /\ dev' = m.dev
    /\ hist' = [hist EXCEPT ![r] = [Observed(Forget(hist[r]), m.calls)
                                       EXCEPT !.orphan = ~CtxAlive(res[r].owner)]]
    /\ last' = [Step(op, r, res[r].handle, <<>>, hist[r], m.calls)
                   EXCEPT !.n = Len(m.calls), !.same = (m.dev = dev)]
    /\ UNCHANGED <<ctx, current, panicked, pc>>

BufferFromData(c, sz, data) ==
    /\ ~panicked /\ CtxAlive(c) /\ NextRes # 0
    /\ Created(Buffer_from_data(Machine, c, NextRes, FreeName(dev[c].buffers), data),
               Wrote(NoHist, "set_data", sz, data, Usize(Len(data) * sz)))

\* the calls of an operation that give the bound buffer its storage
StorageCalls(calls) ==
    Cardinality({i \in DOMAIN calls : calls[i].fn \in {"buffer_data_size", "buffer_data_u8_slice"}})

BufferAllocate(c, n_bytes) ==
    /\ ~panicked /\ CtxAlive(c) /\ NextRes # 0
    /\ \E junk \in Junk :
         LET b == Buffer_allocate(Machine, c, NextRes, FreeName(dev[c].buffers), n_bytes, junk)
             h == IF n_bytes # Usize(0) THEN Wrote(NoHist, "reallocate", 0, <<>>, n_bytes)
                  ELSE NoHist
         IN  /\ res' = [res EXCEPT ![b.self.id] = b.self]
             /\ dev' = b.m.dev
             /\ hist' = [hist EXCEPT ![b.self.id] = Observed(h, b.m.calls)]
             /\ last' = [Step("Buffer_allocate", b.self.id, 0, n_bytes, h, b.m.calls)
                            EXCEPT !.n = StorageCalls(b.m.calls)]
    /\ UNCHANGED <<ctx, current, panicked, pc>>

BufferSize(r) ==
    /\ ~panicked /\ LiveRes(r, "Buffer")
    /\ LET s == Buffer_size(Machine, res[r])
       IN  Operated(r, s.m, "Buffer_size", 0, s.ret, hist[r])

BufferSetData(r, sz, data) ==
    /\ ~panicked /\ LiveRes(r, "Buffer")
    /\ Operated(r, Buffer_set_data(Machine, res[r], data), "Buffer_set_data", 0, <<>>,
                Wrote(hist[r], "set_data", sz, data, Usize(Len(data) * sz)))

BufferData(r, sz) ==
    /\ ~panicked /\ LiveRes(r, "Buffer")
    /\ \E junk \in Junk :
         LET s == Buffer_data(Machine, res[r], sz, junk)
         IN  Operated(r, s.m, "Buffer_data", sz, s.ret, hist[r])

BufferReallocate(r, size) ==
    /\ ~panicked /\ LiveRes(r, "Buffer")
    /\ \E junk \in Junk :
         \* kept for the observer: the allocation size the storage call is handed
         Operated(r, Buffer_reallocate(Machine, res[r], size, junk), "Buffer_reallocate", 0,
                  UsizeAsI32(size),
                  Wrote(hist[r], "reallocate", 0, <<>>, size))

(***************************************************************************)
(* Threads that share one context.  A Buffer holds a shared reference to   *)
(* its Context and no method takes a lock, so the bind of a method and the *)
(* call that follows it are two device calls, and the calls of another     *)
(* thread can fall between them.  Thread t works on Buffer t.              *)
(***************************************************************************)
\* what the threads upload and the sizes they request
ThreadData == {<< <<0>> >>, << <<1>>, <<1>> >>}
ThreadSizes == {Usize(0), Usize(1)}

\* thread u as thread t's bind leaves it: a bind of another buffer of the
\* same context falls between u's bind and u's pending call
Cut(t, u) ==
    IF u # t /\ pc[u].op # "idle" /\ res[u].owner = res[t].owner /\ res[u].handle # res[t].handle
    THEN [pc[u] EXCEPT !.cut = TRUE]
    ELSE pc[u]

\* thread t enters method op of its buffer and issues the bind
ThreadBind(t, op, arg) ==
    /\ ~panicked /\ LiveRes(t, "Buffer") /\ pc[t].op = "idle"
    /\ LET m == Buffer_bind(Machine, res[t])
       IN  /\ dev' = m.dev
           /\ hist' = [hist EXCEPT ![t] = Observed(hist[t], m.calls)]
           /\ last' = Quiet(hist[t], m.calls)
    /\ pc' = [u \in Threads |-> IF u = t THEN [op |-> op, arg |-> arg, cut |-> FALSE]
                                         ELSE Cut(t, u)]
    /\ UNCHANGED <<ctx, current, res, panicked>>

\* thread t issues the call of the method it is in and leaves the method
ThreadCalled(t, m, ret) ==
    /\ dev' = m.dev
    /\ hist' = [hist EXCEPT ![t] = Observed(hist[t], m.calls)]
    /\ last' = [Step(pc[t].op, t, 0, ret, hist[t], m.calls) EXCEPT !.cut = pc[t].cut]
    /\ pc' = [pc EXCEPT ![t] = Idle]
    /\ UNCHANGED <<ctx, current, res, panicked>>

ThreadSize(t) ==
    /\ ~panicked /\ LiveRes(t, "Buffer") /\ pc[t].op = "Buffer_size"
    /\ LET s == Buffer_size_call(Machine, res[t])
       IN  ThreadCalled(t, s.m, s.ret)

ThreadSetData(t) ==
    /\ ~panicked /\ LiveRes(t, "Buffer") /\ pc[t].op = "Buffer_set_data"
    /\ ThreadCalled(t, Buffer_set_data_call(Machine, res[t], pc[t].arg), <<>>)

ThreadReallocate(t) ==
    /\ ~panicked /\ LiveRes(t, "Buffer") /\ pc[t].op = "Buffer_reallocate"
    /\ \E junk \in Junk :
         ThreadCalled(t, Buffer_reallocate_call(Machine, res[t], pc[t].arg, junk), <<>>)

BufferDrop(r) ==
    /\ LiveRes(r, "Buffer")
    /\ Dropped(r, Buffer_drop(Machine, res[r]))

(***************************************************************************)
(* Weak Context Reference (Context::weak_ref, WeakContext::upgrade).  The  *)
(* reference names the context by where it lives and by which context it   *)
(* is; upgrade yields the context (0: nothing).                            *)
(***************************************************************************)
weak_ref(c) == [addr |-> ctx[c].addr, gen |-> c]

\* a faulty variant: a raw back-pointer, which a later context at the same address
\* satisfies
upgrade_by_address(w) ==
    IF \E c \in CtxIds : ctx[c].st = "alive" /\ ctx[c].addr = w.addr
    THEN CHOOSE c \in CtxIds : ctx[c].st = "alive" /\ ctx[c].addr = w.addr
    ELSE 0

upgrade(w) ==
    IF \E c \in CtxIds : ctx[c].st = "alive" /\ ctx[c].addr = w.addr /\ c = w.gen
    THEN w.gen
    ELSE 0

(***************************************************************************)
(* Renderbuffer (src/data/renderbuffer.rs).                                *)
(***************************************************************************)
RbDims == {<<1, 1>>, <<2, 1>>}

\* glRenderbufferStorage on the bound renderbuffer
renderbuffer_storage(d, dims) ==
    IF d.rbBind = 0 THEN d ELSE [d EXCEPT !.rbs[d.rbBind].dims = dims]

\* glDeleteRenderbuffers: the name 0 is silently ignored
delete_renderbuffer(d, h) ==
    IF h \notin Handles THEN d
    ELSE [d EXCEPT !.rbs[h] = NoRb, !.rbBind = IF @ = h THEN 0 ELSE @]

\* a faulty variant: the placeholder is given a device object
Renderbuffer_default_materialized(m, c, r) ==
    LET h == FreeName(D(m, c).rbs)
        self == [NoRes EXCEPT !.id = r, !.kind = "Renderbuffer", !.st = "live", !.owner = c,
                              !.handle = h, !.weak = weak_ref(c)]
    IN  [m |-> Issue(m, c, Call(self, "create_renderbuffer", h),
                     [D(m, c) EXCEPT !.rbs[h] = [live |-> TRUE, dims |-> <<0, 0>>]]),
         self |-> self]

\* Renderbuffer::default: the null handle, no device call
Renderbuffer_default(m, c, r) ==
    [m |-> m,
     self |-> [NoRes EXCEPT !.id = r, !.kind = "Renderbuffer", !.st = "live", !.owner = c,
                            !.handle = 0, !.weak = weak_ref(c)]]

\* Renderbuffer::new; `width as i32`, `height as i32` keep the small
\* dimensions of RbDims as they are
Renderbuffer_new(m, c, r, h, dims) ==
    LET self == [NoRes EXCEPT !.id = r, !.kind = "Renderbuffer", !.st = "live", !.owner = c,
                              !.handle = h, !.weak = weak_ref(c)]
        m1 == Issue(m, c, Call(self, "create_renderbuffer", h),
                    [D(m, c) EXCEPT !.rbs[h] = [live |-> TRUE, dims |-> <<0, 0>>]])
        m2 == Issue(m1, c, Call(self, "bind_renderbuffer", h), [D(m1, c) EXCEPT !.rbBind = h])
        d == D(m2, c)
    IN  [m |-> Issue(m2, c, Call(self, "renderbuffer_storage", d.rbBind), renderbuffer_storage(d, dims)),
         self |-> self]

\* a faulty variant: the destructor deletes without asking whether the context lives
Renderbuffer_drop_unchecked(m, self) ==
    Issue(m, self.owner, Call(self, "delete_renderbuffer", self.handle),
          delete_renderbuffer(D(m, self.owner), self.handle))

\* Drop for Renderbuffer
Renderbuffer_drop(m, self) ==
    LET context == upgrade(self.weak)
    IN  IF context # 0
        THEN Issue(m, context, Call(self, "delete_renderbuffer", self.handle),
                   delete_renderbuffer(D(m, context), self.handle))
        ELSE m

(***************************************************************************)
(* VertexArrayObject (src/data/vao.rs).  The value keeps its own handle on *)
(* the connection (gl), taken from the context at construction.            *)
(***************************************************************************)
delete_vertex_array(d, h) ==
    IF h \notin Handles THEN d
    ELSE [d EXCEPT !.vaos[h] = NoVao, !.vaoBind = IF @ = h THEN 0 ELSE @]

\* VertexArrayObject::new
VertexArrayObject_new(m, c, r, h) ==
    LET self == [NoRes EXCEPT !.id = r, !.kind = "VertexArrayObject", !.st = "live", !.owner = c,
                              !.handle = h, !.vertices = 0]
    IN  [m |-> Issue(m, c, Call(self, "create_vertex_array", h),
                     [D(m, c) EXCEPT !.vaos[h].live = TRUE]),
         self |-> self]

\* glBindVertexArray
bind_vertex_array(d, h) == [d EXCEPT !.vaoBind = h]

\* glEnableVertexAttribArray on the bound vertex array: an error (none bound,
\* index beyond the device's slots) changes nothing
enable_vertex_attrib_array(d, index) ==
    IF d.vaoBind = 0 \/ index \notin Slots THEN d
    ELSE [d EXCEPT !.vaos[d.vaoBind].slots[index].enabled = TRUE]

\* glVertexAttribPointer(index, size, FLOAT, false, 0, 0) on the bound vertex
\* array: the slot takes the buffer ARRAY_BUFFER holds and the component
\* count; an error (none bound, index beyond the slots, size outside 1..4)
\* changes nothing
vertex_attrib_pointer_f32(d, index, size) ==
    IF \/ d.vaoBind = 0 \/ index \notin Slots
       \/ I32Negative(size) \/ I32Value(size) \notin {1, 2, 3, 4}
    THEN d
    ELSE [d EXCEPT !.vaos[d.vaoBind].slots[index].buf = d.arrayBuf,
                   !.vaos[d.vaoBind].slots[index].n = I32Value(size)]

\* a faulty variant: bind() binds the vertex array created first
VertexArrayObject_bind_first(m, self) ==
    Issue(m, self.owner, Call(self, "bind_vertex_array", 1),
          bind_vertex_array(D(m, self.owner), 1))

\* VertexArrayObject::bind
VertexArrayObject_bind(m, self) ==
    Issue(m, self.owner, Call(self, "bind_vertex_array", self.handle),
          bind_vertex_array(D(m, self.owner), self.handle))

\* a faulty variant: the vertex count follows the components attached
VertexArrayObject_set_vertex_buffer_counting(m, self, buffer, attribute_index, n_elements) ==
    [m |-> m, self |-> [self EXCEPT !.vertices = @ + n_elements]]

\* VertexArrayObject::set_vertex_buffer; `n_elements as i32` on a u32
VertexArrayObject_set_vertex_buffer(m, self, buffer, attribute_index, n_elements) ==
    LET m1 == VertexArrayObject_bind(m, self)
        m2 == Buffer_bind(m1, buffer)
        d2 == D(m2, self.owner)
        m3 == Issue(m2, self.owner, Call(self, "enable_vertex_attrib_array", d2.vaoBind),
                    enable_vertex_attrib_array(d2, attribute_index))
        d3 == D(m3, self.owner)
    IN  [m |-> Issue(m3, self.owner, Call(self, "vertex_attrib_pointer_f32", d3.vaoBind),
                     vertex_attrib_pointer_f32(d3, attribute_index, I32(n_elements))),
         self |-> self]

\* a faulty variant: the count is not stored
VertexArrayObject_set_vertices_ignored(m, self, vertices) == [m |-> m, self |-> self]

\* VertexArrayObject::set_vertices
VertexArrayObject_set_vertices(m, self, vertices) ==
    [m |-> m, self |-> [self EXCEPT !.vertices = vertices]]

\* VertexArrayObject::get_vertices
VertexArrayObject_get_vertices(self) == self.vertices

\* Drop for VertexArrayObject
VertexArrayObject_drop(m, self) ==
    Issue(m, self.owner, Call(self, "delete_vertex_array", self.handle),
          delete_vertex_array(D(m, self.owner), self.handle))

(***************************************************************************)
(* FragmentShader (src/code/shaders/fragmentshader.rs).                    *)
(***************************************************************************)
delete_shader(d, h) ==
    IF h \notin Handles THEN d ELSE [d EXCEPT !.shaders[h] = NoObj]

\* FragmentShader::new when create_shader returns Ok(id)
FragmentShader_new(m, c, r, h) ==
    LET self == [NoRes EXCEPT !.id = r, !.kind = "FragmentShader", !.st = "live", !.owner = c,
                              !.handle = h]
    IN  [m |-> Issue(m, c, Call(self, "create_shader", h),
                     [D(m, c) EXCEPT !.shaders[h] = [live |-> TRUE]]),
         self |-> self]

\* Drop for FragmentShader
FragmentShader_drop(m, self) ==
    Issue(m, self.owner, Call(self, "delete_shader", self.handle),
          delete_shader(D(m, self.owner), self.handle))

(***************************************************************************)
(* The application's steps on renderbuffers, vertex arrays and shaders.    *)
(***************************************************************************)
RenderbufferDefault(c) ==
    /\ ~panicked /\ CtxAlive(c) /\ NextRes # 0
    /\ CreatedBy("Renderbuffer_default", Renderbuffer_default(Machine, c, NextRes), NoHist)

RenderbufferNew(c, dims) ==
    /\ ~panicked /\ CtxAlive(c) /\ NextRes # 0
    /\ CreatedBy("Renderbuffer_new",
                 Renderbuffer_new(Machine, c, NextRes, FreeName(dev[c].rbs), dims), NoHist)

RenderbufferDrop(r) ==
    /\ LiveRes(r, "Renderbuffer")
    /\ DroppedBy("Renderbuffer_drop", r, Renderbuffer_drop(Machine, res[r]))

VertexArrayObjectNew(c) ==
    /\ ~panicked /\ CtxAlive(c) /\ NextRes # 0
    /\ Created(VertexArrayObject_new(Machine, c, NextRes, FreeName(dev[c].vaos)), NoHist)

VertexArrayObjectDrop(r) ==
    /\ LiveRes(r, "VertexArrayObject")
    /\ Dropped(r, VertexArrayObject_drop(Machine, res[r]))

\* the Buffer values of context 1 an application attaches to vertex arrays:
\* made by Buffer::allocate(&context, 0) before the vertex arrays, and kept
VertexBuffers == {[NoRes EXCEPT !.id = MaxRes + h, !.kind = "Buffer", !.st = "live",
                                !.owner = 1, !.handle = h] : h \in Handles}

\* the inputs of the vertex array steps
AttributeIndices == 0..(MaxSlot + 1)
Components == {1, 2}
VertexCounts == {0, 3}
VertexData == {<<>>, << <<1>> >>}

VertexArrayObjectSetVertexBuffer(r, buffer, attribute_index, n_elements) ==
    /\ ~panicked /\ LiveRes(r, "VertexArrayObject")
    /\ LET s == VertexArrayObject_set_vertex_buffer(Machine, res[r], buffer,
                                                    attribute_index, n_elements)
           args == <<buffer.handle, attribute_index, n_elements>>
       IN  /\ res' = [res EXCEPT ![r] = s.self]
           /\ dev' = s.m.dev
           /\ hist' = [hist EXCEPT ![r] = Observed(hist[r], s.m.calls)]
           /\ last' = [Step("VertexArrayObject_set_vertex_buffer", r, 0, args, hist[r], s.m.calls)
                          EXCEPT !.rep = /\ last.op = "VertexArrayObject_set_vertex_buffer"
                                         /\ last.by = r /\ last.ret = args,
                                 !.same = (s.m.dev = dev /\ s.self = res[r])]
    /\ UNCHANGED <<ctx, current, panicked, pc>>

VertexArrayObjectSetVertices(r, vertices) ==
    /\ ~panicked /\ LiveRes(r, "VertexArrayObject")
    /\ LET s == VertexArrayObject_set_vertices(Machine, res[r], vertices)
       IN  /\ res' = [res EXCEPT ![r] = s.self]
           /\ dev' = s.m.dev
           /\ hist' = [hist EXCEPT ![r] = [Observed(hist[r], s.m.calls)
                                              EXCEPT !.wr = "set_vertices", !.wsz = vertices]]
           /\ last' = [Step("VertexArrayObject_set_vertices", r, vertices, <<>>, hist[r], s.m.calls)
                          EXCEPT !.n = Len(s.m.calls)]
    /\ UNCHANGED <<ctx, current, panicked, pc>>

VertexArrayObjectGetVertices(r) ==
    /\ ~panicked /\ LiveRes(r, "VertexArrayObject")
    /\ Operated(r, Machine, "VertexArrayObject_get_vertices", 0,
                <<VertexArrayObject_get_vertices(res[r])>>, hist[r])

\* Buffer::set_data on an attached buffer
VertexBufferSetData(buffer, data) ==
    /\ ~panicked
    /\ LET m == Buffer_set_data(Machine, buffer, data)
       IN  /\ dev' = m.dev
           /\ last' = Quiet(NoHist, m.calls)
    /\ UNCHANGED <<ctx, current, res, hist, panicked, pc>>

\* Buffer::reallocate on an attached buffer
VertexBufferReallocate(buffer, size) ==
    /\ ~panicked
    /\ \E junk \in Junk :
         LET m == Buffer_reallocate(Machine, buffer, size, junk)
         IN  /\ dev' = m.dev
             /\ last' = Quiet(NoHist, m.calls)
    /\ UNCHANGED <<ctx, current, res, hist, panicked, pc>>

\* create_shader compiles the source (ok) or reports the error, and then no
\* value is made
FragmentShaderNew(c, ok) ==
    /\ ~panicked /\ CtxAlive(c) /\ NextRes # 0
    /\ IF ok
       THEN Created(FragmentShader_new(Machine, c, NextRes, FreeName(dev[c].shaders)), NoHist)
       ELSE last' = NoLast /\ UNCHANGED <<ctx, current, res, dev, hist, panicked, pc>>

FragmentShaderDrop(r) ==
    /\ LiveRes(r, "FragmentShader")
    /\ Dropped(r, FragmentShader_drop(Machine, res[r]))

(***************************************************************************)
(* The device's 3D texture calls, as the raw gl bindings issue them on the *)
(* context current on the thread.  A texture image is its texels' stored   *)
(* components in order.                                                    *)
(***************************************************************************)
MaxWidth == 2
RGBA == 4

TexDims == {<<0, 0, 0>>} \cup {<<w, 1, 1>> : w \in 1..MaxWidth}

\* ColorFormat::components(n): the channel counts an application stores
TexChans == {1, 2}

\* the channel count an application asks storage for
StorageChans == {1}

Vol(dims) == dims[1] * dims[2] * dims[3]

\* the slices an application uploads for dims under a format of dchans
\* channels, one component per channel of every texel: the two alternating
\* patterns of that length
Pixels(dims, dchans) == {[k \in 1..(Vol(dims) * dchans) |-> (k + p) % 2] : p \in {0, 1}}

TexJunk == {[i \in 1..(MaxWidth * RGBA) |-> b] : b \in Byte}

\* `x as i32` on a usize dimension, and `x as usize` on a queried i32
DimAsI32(n) == UsizeAsI32(Usize(n))
I32AsDim(i) == UsizeValue(I32AsUsize(i))

\* the components of vol texels held as `from` channels each (data holds
\* vol * from of them), transferred as `to` channels each: missing components
\* read 0
Transfer(data, vol, from, to) ==
    [k \in 1..(vol * to) |->
        LET t == (k - 1) \div to
            j == ((k - 1) % to) + 1
        IN  IF j > from THEN 0 ELSE data[t * from + j]]

BindTexture(d, h) == [d EXCEPT !.tex3d = h]

\* glTexStorage3D: immutable storage with undefined contents; an error (no
\* texture bound, a dimension below 1 or negative, storage already immutable)
\* changes nothing
TexStorage3D(d, chans, w, h, depth, junk) ==
    IF \/ d.tex3d = 0
       \/ I32Negative(w) \/ I32Negative(h) \/ I32Negative(depth)
       \/ I32Value(w) < 1 \/ I32Value(h) < 1 \/ I32Value(depth) < 1
       \/ d.textures[d.tex3d].immutable
    THEN d
    ELSE [d EXCEPT !.textures[d.tex3d] =
             [live |-> TRUE, immutable |-> TRUE,
              dims |-> <<I32Value(w), I32Value(h), I32Value(depth)>>, chans |-> chans,
              data |-> Prefix(junk, I32Value(w) * I32Value(h) * I32Value(depth) * chans)]]

\* glTexImage3D: replaces the image of the bound texture; an error (no
\* texture bound, a negative dimension, immutable storage) changes nothing
TexImage3D(d, chans, w, h, depth, dchans, data) ==
    IF \/ d.tex3d = 0
       \/ I32Negative(w) \/ I32Negative(h) \/ I32Negative(depth)
       \/ d.textures[d.tex3d].immutable
    THEN d
    ELSE [d EXCEPT !.textures[d.tex3d] =
             [live |-> TRUE, immutable |-> FALSE,
              dims |-> <<I32Value(w), I32Value(h), I32Value(depth)>>, chans |-> chans,
              data |-> Transfer(data, I32Value(w) * I32Value(h) * I32Value(depth),
                                dchans, chans)]]

\* glGetTexLevelParameteriv(TEXTURE_3D, 0, TEXTURE_WIDTH / HEIGHT / DEPTH):
\* the extent of whatever texture the binding point holds
GetTexLevelParameteriv(d, i) ==
    IF d.tex3d = 0 THEN I32(0) ELSE I32(d.textures[d.tex3d].dims[i])

\* glGetTexImage: the image of the bound texture as `to` channels per texel
GetTexImage(d, to) ==
    IF d.tex3d = 0 THEN <<>>
    ELSE Transfer(d.textures[d.tex3d].data, Vol(d.textures[d.tex3d].dims),
                  d.textures[d.tex3d].chans, to)

\* glDeleteTextures
DeleteTextures(d, h) ==
    IF h \notin Handles THEN d
    ELSE [d EXCEPT !.textures[h] = NoTex, !.tex3d = IF @ = h THEN 0 ELSE @]

(***************************************************************************)
(* Texture3D of src/data/textures/texture3d.rs: no context field; every    *)
(* call goes to the context current on the thread.                         *)
(***************************************************************************)
\* Texture3D::new
Texture3D_new(m, r, h) ==
    LET self == [NoRes EXCEPT !.id = r, !.kind = "Texture3D", !.st = "live", !.owner = current,
                              !.handle = h, !.chans = RGBA]
    IN  [m |-> Issue(m, current, Call(self, "GenTextures", h),
                     [D(m, current) EXCEPT !.textures[h].live = TRUE]),
         self |-> self]

\* Texture3D::get_width (i = 1), get_height (i = 2), get_depth (i = 3)
Texture3D_get(m, self, i) ==
    LET d == D(m, current)
    IN  [m |-> Issue(m, current, Call(self, "GetTexLevelParameteriv", d.tex3d), d),
         ret |-> I32AsDim(GetTexLevelParameteriv(d, i))]

\* Texture3D::get_dimension
Texture3D_get_dimension(m, self) ==
    LET w == Texture3D_get(m, self, 1)
        h == Texture3D_get(w.m, self, 2)
        d == Texture3D_get(h.m, self, 3)
    IN  [m |-> d.m, ret |-> <<w.ret, h.ret, d.ret>>]

\* Texture3D::reallocate
Texture3D_reallocate(m, self, dimension, chans, junk) ==
    LET self1 == [self EXCEPT !.chans = chans]
        m1 == Issue(m, current, Call(self, "BindTexture", self.handle),
                    BindTexture(D(m, current), self.handle))
        d == D(m1, current)
    IN  [m |-> Issue(m1, current, Call(self, "TexStorage3D", d.tex3d),
                     TexStorage3D(d, chans, DimAsI32(dimension[1]), DimAsI32(dimension[2]),
                                  DimAsI32(dimension[3]), junk)),
         self |-> self1]

\* Texture3D::set_data: &data[0] panics on an empty slice, after the format
\* is recorded and the texture bound
Texture3D_set_data(m, self, dimension, chans, data, dchans) ==
    LET self1 == [self EXCEPT !.chans = chans]
        m1 == Issue(m, current, Call(self, "BindTexture", self.handle),
                    BindTexture(D(m, current), self.handle))
        d == D(m1, current)
    IN  IF data = <<>>
        THEN [m |-> m1, self |-> self1, panic |-> TRUE]
        ELSE [m |-> Issue(m1, current, Call(self, "TexImage3D", d.tex3d),
                          TexImage3D(d, chans, DimAsI32(dimension[1]), DimAsI32(dimension[2]),
                                     DimAsI32(dimension[3]), dchans, data)),
              self |-> self1, panic |-> FALSE]

\* Texture3D::get_data: the vector is sized from the getters, then the
\* texture is bound and read; the part of the vector the device does not
\* write stays uninitialised, and a vector too short is overrun
Texture3D_get_data(m, self, junk) ==
    LET w == Texture3D_get(m, self, 1)
        h == Texture3D_get(w.m, self, 2)
        d == Texture3D_get(h.m, self, 3)
        capacity == w.ret * h.ret * d.ret * self.chans
        m1 == Issue(d.m, current, Call(self, "ActiveTexture", self.handle), D(d.m, current))
        m2 == Issue(m1, current, Call(self, "BindTexture", self.handle),
                    BindTexture(D(m1, current), self.handle))
        dv == D(m2, current)
        image == GetTexImage(dv, self.chans)
    IN  [m |-> Issue(m2, current, Call(self, "GetTexImage", dv.tex3d), dv),
         ret |-> IF Len(image) >= capacity THEN Prefix(image, capacity)
                 ELSE image \o SubSeq(junk, Len(image) + 1, capacity)]

\* Texture3D::allocate
Texture3D_allocate(m, r, h, dimension, chans, junk) ==
    LET t == Texture3D_new(m, r, h)
    IN  Texture3D_reallocate(t.m, t.self, dimension, chans, junk)

\* Texture3D::from_data
Texture3D_from_data(m, r, h, dimension, chans, data, dchans) ==
    LET t == Texture3D_new(m, r, h)
    IN  Texture3D_set_data(t.m, t.self, dimension, chans, data, dchans)

\* Drop for Texture3D
Texture3D_drop(m, self) ==
    Issue(m, current, Call(self, "DeleteTextures", self.handle),
          DeleteTextures(D(m, current), self.handle))

(***************************************************************************)
(* Texture3D of src/data/textures/texture_3d.rs, on the base object        *)
(* Texture (Texture::new, Texture::bind, Drop for Texture), which holds    *)
(* the handle, the format and a weak reference to the context.             *)
(***************************************************************************)
Texture_new(m, c, r, h, chans) ==
    LET self == [NoRes EXCEPT !.id = r, !.kind = "Texture_3d", !.st = "live", !.owner = c,
                              !.handle = h, !.chans = chans, !.weak = weak_ref(c)]
    IN  [m |-> Issue(m, current, Call(self, "GenTextures", h),
                     [D(m, current) EXCEPT !.textures[h].live = TRUE]),
         self |-> self]

Texture_bind(m, self) ==
    Issue(m, current, Call(self, "BindTexture", self.handle),
          BindTexture(D(m, current), self.handle))

Texture_drop(m, self) ==
    IF upgrade(self.weak) # 0
    THEN Issue(m, current, Call(self, "DeleteTextures", self.handle),
               DeleteTextures(D(m, current), self.handle))
    ELSE m

\* Texture3D::new
Texture_3d_new(m, c, r, h) ==
    LET t == Texture_new(m, c, r, h, RGBA)
    IN  [m |-> t.m, self |-> [t.self EXCEPT !.dims = <<0, 0, 0>>]]

\* Texture3D::dimensions
Texture_3d_dimensions(self) == self.dims

\* Texture3D::reallocate
Texture_3d_reallocate(m, self, dimensions, chans, junk) ==
    LET self1 == [self EXCEPT !.dims = dimensions, !.chans = chans]
        m1 == Texture_bind(m, self1)
        d == D(m1, current)
    IN  [m |-> Issue(m1, current, Call(self, "TexStorage3D", d.tex3d),
                     TexStorage3D(d, chans, DimAsI32(dimensions[1]), DimAsI32(dimensions[2]),
                                  DimAsI32(dimensions[3]), junk)),
         self |-> self1]

\* Texture3D::set_data
Texture_3d_set_data(m, self, dimensions, chans, data, dchans) ==
    LET self1 == [self EXCEPT !.dims = dimensions, !.chans = chans]
        m1 == Texture_bind(m, self1)
        d == D(m1, current)
    IN  [m |-> Issue(m1, current, Call(self, "TexImage3D", d.tex3d),
                     TexImage3D(d, chans, DimAsI32(dimensions[1]), DimAsI32(dimensions[2]),
                                DimAsI32(dimensions[3]), dchans, data)),
         self |-> self1]

\* Texture3D::data: Vec::new()
Texture_3d_data(m, self) == [m |-> m, ret |-> <<>>]

\* Texture3D::allocate
Texture_3d_allocate(m, c, r, h, dimensions, chans, junk) ==
    LET t == Texture_3d_new(m, c, r, h)
    IN  Texture_3d_reallocate(t.m, t.self, dimensions, chans, junk)

\* Texture3D::from_data
Texture_3d_from_data(m, c, r, h, dimensions, chans, data, dchans) ==
    LET t == Texture_3d_new(m, c, r, h)
    IN  Texture_3d_set_data(t.m, t.self, dimensions, chans, data, dchans)

(***************************************************************************)
(* The application's steps on textures.  The raw gl bindings are loaded    *)
(* from, and act on, the context current on the thread: a texture is made  *)
(* while a context is current (tests of texture3d.rs, lines 125-126).      *)
(***************************************************************************)
\* what the application has stored in a texture last
WroteTex(h, kind, dims, chans, data, dchans) ==
    [h EXCEPT !.wr = kind, !.tdims = dims, !.tchans = chans, !.wdata = data, !.wsz = dchans]

\* the step of a method of resource r that changes the resource value:
\* b = [m, self]
Mutated(r, b, h) ==
    /\ res' = [res EXCEPT ![r] = b.self]
    /\ dev' = b.m.dev
    /\ hist' = [hist EXCEPT ![r] = Observed(h, b.m.calls)]
    /\ last' = Quiet(hist[r], b.m.calls)
    /\ UNCHANGED <<ctx, current, pc>>

Texture3DAllocate(dims, chans) ==
    /\ ~panicked /\ current # 0 /\ NextRes # 0
    /\ \E junk \in TexJunk :
         Created(Texture3D_allocate(Machine, NextRes, FreeName(dev[current].textures),
                                    dims, chans, junk),
                 WroteTex(NoHist, "reallocate", dims, chans, <<>>, 0))

\* from_data on an empty slice: set_data panics, and unwinding drops the
\* texture from_data had made
Texture3DFromData(dims, chans, dchans, data) ==
    /\ ~panicked /\ current # 0 /\ NextRes # 0
    /\   LET b == Texture3D_from_data(Machine, NextRes, FreeName(dev[current].textures),
                                      dims, chans, data, dchans)
             h == WroteTex(NoHist, "set_data", dims, chans, data, dchans)
         IN  IF b.panic
             THEN /\ panicked' = TRUE
                  /\ LET m == Texture3D_drop(b.m, b.self)
                     IN  /\ dev' = m.dev
                         /\ res' = [res EXCEPT ![NextRes] =
                                       [NoRes EXCEPT !.id = NextRes, !.kind = "Texture3D",
                                                     !.st = "dropped", !.owner = current]]
                         /\ hist' = [hist EXCEPT ![NextRes] = Observed(NoHist, m.calls)]
                         /\ last' = Quiet(NoHist, m.calls)
                  /\ UNCHANGED <<ctx, current, pc>>
             ELSE Created(b, h)

Texture3DReallocate(r, dims, chans) ==
    /\ ~panicked /\ LiveRes(r, "Texture3D")
    /\ \E junk \in TexJunk :
         /\ Mutated(r, Texture3D_reallocate(Machine, res[r], dims, chans, junk),
                    WroteTex(hist[r], "reallocate", dims, chans, <<>>, 0))
         /\ UNCHANGED panicked

Texture3DSetData(r, dims, chans, dchans, data) ==
    /\ ~panicked /\ LiveRes(r, "Texture3D")
    /\   LET b == Texture3D_set_data(Machine, res[r], dims, chans, data, dchans)
         IN  /\ Mutated(r, b, IF b.panic THEN hist[r]
                              ELSE WroteTex(hist[r], "set_data", dims, chans, data, dchans))
             /\ panicked' = b.panic

Texture3DGet(r, i) ==
    /\ ~panicked /\ LiveRes(r, "Texture3D")
    /\ LET g == Texture3D_get(Machine, res[r], i)
       IN  Operated(r, g.m, "", i, <<g.ret>>, hist[r])

Texture3DGetDimension(r) ==
    /\ ~panicked /\ LiveRes(r, "Texture3D")
    /\ LET g == Texture3D_get_dimension(Machine, res[r])
       IN  Operated(r, g.m, "Texture3D_get_dimension", 0, g.ret, hist[r])

Texture3DGetData(r) ==
    /\ ~panicked /\ LiveRes(r, "Texture3D")
    /\ \E junk \in TexJunk :
         LET g == Texture3D_get_data(Machine, res[r], junk)
         IN  Operated(r, g.m, "Texture3D_get_data", 0, g.ret, hist[r])

Texture3DDrop(r) ==
    /\ LiveRes(r, "Texture3D")
    /\ Dropped(r, Texture3D_drop(Machine, res[r]))

Texture_3dAllocate(c, dims, chans) ==
    /\ ~panicked /\ CtxAlive(c) /\ c = current /\ NextRes # 0
    /\ \E junk \in TexJunk :
         Created(Texture_3d_allocate(Machine, c, NextRes, FreeName(dev[current].textures),
                                     dims, chans, junk),
                 WroteTex(NoHist, "reallocate", dims, chans, <<>>, 0))

Texture_3dFromData(c, dims, chans, dchans, data) ==
    /\ ~panicked /\ CtxAlive(c) /\ c = current /\ NextRes # 0
    /\ Created(Texture_3d_from_data(Machine, c, NextRes, FreeName(dev[current].textures),
                                    dims, chans, data, dchans),
               WroteTex(NoHist, "set_data", dims, chans, data, dchans))

Texture_3dReallocate(r, dims, chans) ==
    /\ ~panicked /\ LiveRes(r, "Texture_3d")
    /\ \E junk \in TexJunk :
         /\ Mutated(r, Texture_3d_reallocate(Machine, res[r], dims, chans, junk),
                    WroteTex(hist[r], "reallocate", dims, chans, <<>>, 0))
         /\ UNCHANGED panicked

Texture_3dSetData(r, dims, chans, dchans, data) ==
    /\ ~panicked /\ LiveRes(r, "Texture_3d")
    /\ Mutated(r, Texture_3d_set_data(Machine, res[r], dims, chans, data, dchans),
               WroteTex(hist[r], "set_data", dims, chans, data, dchans))
    /\ UNCHANGED panicked

Texture_3dDimensions(r) ==
    /\ ~panicked /\ LiveRes(r, "Texture_3d")
    /\ Operated(r, Machine, "Texture_3d_dimensions", 0, Texture_3d_dimensions(res[r]), hist[r])

Texture_3dData(r) ==
    /\ ~panicked /\ LiveRes(r, "Texture_3d")
    /\ LET g == Texture_3d_data(Machine, res[r])
       IN  Operated(r, g.m, "Texture_3d_data", 0, g.ret, hist[r])

Texture_3dDrop(r) ==
    /\ LiveRes(r, "Texture_3d")
    /\ Dropped(r, Texture_drop(Machine, res[r]))

(***************************************************************************)
(* Specifications.                                                         *)
(***************************************************************************)
Init ==
    /\ ctx = [c \in CtxIds |-> NoCtx]
    /\ current = 0
    /\ res = [r \in ResIds |-> NoRes]
    /\ dev = [c \in CtxIds |-> EmptyDev]
    /\ last = NoLast
    /\ hist = [r \in ResIds |-> NoHist]
    /\ panicked = FALSE
    /\ pc = [t \in Threads |-> Idle]

ContextStep ==
    \/ \E a \in Addrs : Context_new(a)
    \/ \E c \in CtxIds, ok \in BOOLEAN : Context_make_current(c, ok)
    \/ \E c \in CtxIds : Context_drop(c)

BufferStep ==
    \/ \E c \in CtxIds, sz \in ElemSizes : \E data \in Slices(sz) : BufferFromData(c, sz, data)
    \/ \E c \in CtxIds, n \in Sizes : BufferAllocate(c, n)
    \/ \E r \in ResIds : BufferSize(r)
    \/ \E r \in ResIds, sz \in ElemSizes : \E data \in Slices(sz) : BufferSetData(r, sz, data)
    \/ \E r \in ResIds, sz \in ElemSizes : BufferData(r, sz)
    \/ \E r \in ResIds, n \in Sizes : BufferReallocate(r, n)
    \/ \E r \in ResIds : BufferDrop(r)

\* the state after the application has built its context and made it current
InitCurrent ==
    /\ ctx = [c \in CtxIds |-> IF c = 1 THEN [st |-> "alive", addr |-> 1, act |-> "ok"] ELSE NoCtx]
    /\ current = 1
    /\ res = [r \in ResIds |-> NoRes]
    /\ dev = [c \in CtxIds |-> EmptyDev]
    /\ last = NoLast
    /\ hist = [r \in ResIds |-> NoHist]
    /\ panicked = FALSE
    /\ pc = [t \in Threads |-> Idle]

\* an application that works on buffers of its context
SpecBuffers == InitCurrent /\ [][BufferStep]_vars

\* an application that creates the buffers of one context and lets one thread
\* per buffer call its methods
ThreadStep ==
    \/ BufferAllocate(1, Usize(0))
    \/ \E t \in Threads : ThreadBind(t, "Buffer_size", <<>>)
    \/ \E t \in Threads, data \in ThreadData : ThreadBind(t, "Buffer_set_data", data)
    \/ \E t \in Threads, size \in ThreadSizes : ThreadBind(t, "Buffer_reallocate", size)
    \/ \E t \in Threads : ThreadSize(t)
    \/ \E t \in Threads : ThreadSetData(t)
    \/ \E t \in Threads : ThreadReallocate(t)

SpecThreads == InitCurrent /\ [][ThreadStep]_vars

Texture3DStep ==
    \/ \E dims \in TexDims, chans \in StorageChans : Texture3DAllocate(dims, chans)
    \/ \E dims \in TexDims, chans \in TexChans :
         \E data \in Pixels(dims, chans) : Texture3DFromData(dims, chans, chans, data)
    \/ \E r \in ResIds, dims \in TexDims, chans \in StorageChans : Texture3DReallocate(r, dims, chans)
    \/ \E r \in ResIds, dims \in TexDims, chans \in TexChans :
         \E data \in Pixels(dims, chans) : Texture3DSetData(r, dims, chans, chans, data)
    \/ \E r \in ResIds, i \in 1..3 : Texture3DGet(r, i)
    \/ \E r \in ResIds : Texture3DGetDimension(r)
    \/ \E r \in ResIds : Texture3DGetData(r)
    \/ \E r \in ResIds : Texture3DDrop(r)

\* an application that works on textures of texture3d.rs
SpecTexture3D == InitCurrent /\ [][Texture3DStep]_vars

Texture_3dStep ==
    \/ \E c \in CtxIds, dims \in TexDims, chans \in StorageChans :
         Texture_3dAllocate(c, dims, chans)
    \/ \E c \in CtxIds, dims \in TexDims, chans \in TexChans :
         \E data \in Pixels(dims, chans) : Texture_3dFromData(c, dims, chans, chans, data)
    \/ \E r \in ResIds, dims \in TexDims, chans \in StorageChans :
         Texture_3dReallocate(r, dims, chans)
    \/ \E r \in ResIds, dims \in TexDims, chans \in TexChans :
         \E data \in Pixels(dims, chans) : Texture_3dSetData(r, dims, chans, chans, data)
    \/ \E r \in ResIds : Texture_3dDimensions(r)
    \/ \E r \in ResIds : Texture_3dData(r)
    \/ \E r \in ResIds : Texture_3dDrop(r)

\* an application that works on textures of texture_3d.rs
SpecTexture_3d == InitCurrent /\ [][Texture_3dStep]_vars

\* the inputs of the constructors in the lifecycle specification
UnitDims == {<<1, 1, 1>>}
UnitChans == {1}
UnitSizes == {Usize(0), Usize(1)}

\* the state after the application has built its context, made it current
\* and made the buffers it attaches
InitVertexArrays ==
    /\ ctx = [c \in CtxIds |-> IF c = 1 THEN [st |-> "alive", addr |-> 1, act |-> "ok"] ELSE NoCtx]
    /\ current = 1
    /\ res = [r \in ResIds |-> NoRes]
    /\ dev = [c \in CtxIds |->
                IF c = 1 THEN [EmptyDev EXCEPT !.buffers = [h \in Handles |-> [NoBuf EXCEPT !.live = TRUE]]]
                ELSE EmptyDev]
    /\ last = NoLast
    /\ hist = [r \in ResIds |-> NoHist]
    /\ panicked = FALSE
    /\ pc = [t \in Threads |-> Idle]

VertexArrayStep ==
    \/ \E c \in CtxIds : VertexArrayObjectNew(c)
    \/ \E r \in ResIds, buffer \in VertexBuffers, i \in AttributeIndices, n \in Components :
         VertexArrayObjectSetVertexBuffer(r, buffer, i, n)
    \/ \E r \in ResIds : VertexArrayObjectDrop(r)

\* an application that attaches buffers to the slots of vertex arrays
SpecVertexArrays == InitVertexArrays /\ [][VertexArrayStep]_vars

VertexCountStep ==
    \/ \E c \in CtxIds : VertexArrayObjectNew(c)
    \/ \E r \in ResIds, buffer \in VertexBuffers : VertexArrayObjectSetVertexBuffer(r, buffer, 0, 1)
    \/ \E r \in ResIds, n \in VertexCounts : VertexArrayObjectSetVertices(r, n)
    \/ \E r \in ResIds : VertexArrayObjectGetVertices(r)
    \/ \E buffer \in VertexBuffers, data \in VertexData : VertexBufferSetData(buffer, data)
    \/ \E buffer \in VertexBuffers, n \in UnitSizes : VertexBufferReallocate(buffer, n)
    \/ \E r \in ResIds : VertexArrayObjectDrop(r)

\* an application that keeps the vertex counts of its vertex arrays while it
\* attaches and rewrites their buffers
SpecVertexCount == InitVertexArrays /\ [][VertexCountStep]_vars

LifeStep ==
    \/ \E c \in CtxIds, n \in UnitSizes : BufferAllocate(c, n)
    \/ \E r \in ResIds : BufferDrop(r)
    \/ \E c \in CtxIds : RenderbufferDefault(c)
    \/ \E c \in CtxIds, dims \in RbDims : RenderbufferNew(c, dims)
    \/ \E r \in ResIds : RenderbufferDrop(r)
    \/ \E c \in CtxIds : VertexArrayObjectNew(c)
    \/ \E r \in ResIds : VertexArrayObjectDrop(r)
    \/ \E c \in CtxIds, ok \in BOOLEAN : FragmentShaderNew(c, ok)
    \/ \E r \in ResIds : FragmentShaderDrop(r)
    \/ \E dims \in UnitDims, chans \in UnitChans : Texture3DAllocate(dims, chans)
    \/ \E r \in ResIds : Texture3DGetDimension(r)
    \/ \E r \in ResIds : Texture3DDrop(r)
    \/ \E c \in CtxIds, dims \in UnitDims, chans \in UnitChans : Texture_3dAllocate(c, dims, chans)
    \/ \E r \in ResIds : Texture_3dDrop(r)

Next == ContextStep \/ LifeStep

\* an application that creates and drops contexts and resources of every kind
Spec == Init /\ [][Next]_vars

(***************************************************************************)
(* Claims.                                                                 *)
(***************************************************************************)

\* C1: dropping a Renderbuffer whose context was destroyed before it issues
\* no delete_renderbuffer call, whatever else was created and dropped.
C1_NoDeleteAfterContext ==
    \A r \in ResIds :
        (res[r].kind = "Renderbuffer" /\ res[r].st = "dropped" /\ hist[r].orphan)
            => hist[r].dels = 0

\* C1 witness: a Renderbuffer with a device handle, dropped after its context,
\* while another resource was made and dropped in between.
C1_Witness ==
    /\ res[2].kind = "Renderbuffer" /\ res[2].st = "dropped" /\ hist[2].orphan
    /\ hist[2].dels = 0
    /\ res[1].st = "dropped" /\ hist[1].dels = 1

\* C2: for every resource type, once the owning context is destroyed no
\* device call is issued with the resource's handle.
C2_NoCallAfterContext ==
    ~last.late

\* C3: a resource dropped while its context is alive gets exactly one delete
\* call over the whole run, also after the context is dropped, and no call is
\* issued for it after the delete.
C3_ExactlyOneDelete ==
    /\ \A r \in ResIds :
          /\ (res[r].st = "dropped" /\ ~hist[r].orphan) => hist[r].dels = 1
          /\ res[r].st = "live" => hist[r].dels = 0
    /\ ~last.post

\* C3 witness: a Buffer and a Renderbuffer dropped before their context, and
\* the context dropped afterwards.
C3_Witness ==
    /\ res[1].kind = "Buffer" /\ res[1].st = "dropped" /\ ~hist[1].orphan
    /\ res[2].kind = "Renderbuffer" /\ res[2].st = "dropped" /\ ~hist[2].orphan
    /\ ctx[res[1].owner].st = "dead" /\ ctx[res[2].owner].st = "dead"
    /\ hist[1].dels = 1 /\ hist[2].dels = 1

\* C4: upgrade() of a weak reference returns the context while it is alive
\* and nothing once it is destroyed, also when a later context lives at the
\* destroyed context's address.
C4_UpgradeFollowsContext ==
    \A r \in ResIds :
        (res[r].st = "live" /\ res[r].weak # NoWeak)
            => upgrade(res[r].weak) = IF CtxAlive(res[r].owner) THEN res[r].owner ELSE 0

\* C4 witness: a live Renderbuffer of the destroyed context 1 while context 2
\* lives at the address context 1 had.
C4_Witness ==
    /\ LiveRes(1, "Renderbuffer") /\ res[1].owner = 1
    /\ ctx[1].st = "dead" /\ ctx[2].st = "alive" /\ ctx[2].addr = res[1].weak.addr
    /\ upgrade(res[1].weak) = 0

\* C5: every device call of a Buffer operation that reads or writes buffer
\* state executes while ARRAY_BUFFER holds that Buffer's own handle.
C5_BufferCallsOnOwnBinding ==
    ~last.stray

\* C5 witness: a size query on buffer 1 right after buffer 2 was written, so
\* the binding point held buffer 2's handle when the query began.
C5_Witness ==
    /\ last.op = "Buffer_size" /\ last.by = 1
    /\ LiveRes(2, "Buffer") /\ hist[2].wr = "set_data" /\ hist[1].wr = "set_data"
    /\ hist[1].wdata # hist[2].wdata

\* C7: data::<T>() on a Buffer returns exactly the sequence last uploaded to
\* it by from_data / set_data, whatever was done to other buffers meanwhile.
C7_BufferRoundTrip ==
    (last.op = "Buffer_data" /\ hist[last.by].wr = "set_data" /\ hist[last.by].wsz = last.sz)
        => last.ret = hist[last.by].wdata

\* C7 witness: two-byte elements read back from buffer 1 while buffer 2 holds
\* other data of another length.
C7_Witness ==
    /\ last.op = "Buffer_data" /\ last.by = 1 /\ last.sz = 2
    /\ hist[1].wr = "set_data" /\ hist[1].wsz = 2 /\ Len(hist[1].wdata) = 1
    /\ LiveRes(2, "Buffer") /\ hist[2].wr = "set_data" /\ Len(hist[2].wdata) = 0
    /\ last.ret = hist[1].wdata

\* C8: size() on a Buffer returns the byte size given by the most recent
\* reallocate(n) or set_data(e) applied to it.
C8_SizeIsLatestRequest ==
    (last.op = "Buffer_size" /\ hist[last.by].wr # "none")
        => last.ret = hist[last.by].wsize

\* C6: every Texture3D operation binds its own texture before it touches the
\* device, so a dimension query on a texture returns that texture's extent
\* whichever texture the preceding operation bound.
C6_TextureCallsOnOwnBinding ==
    /\ ~last.stray
    /\ last.op = "Texture3D_get_dimension"
          => last.ret = dev[current].textures[res[last.by].handle].dims

\* C9: a Texture3D getter reports the dimensions given to the most recent
\* allocate / reallocate / set_data / from_data on that texture.
C9_DimensionsAreLatestRequest ==
    (last.op = "Texture3D_get_dimension" /\ hist[last.by].wr # "none")
        => last.ret = hist[last.by].tdims

\* C10: reading a texture back after from_data / set_data with the stored
\* format returns the uploaded components, in every Texture3D implementation.
C10_TextureRoundTrip ==
    (last.op = "Texture_3d_data" /\ hist[last.by].wr = "set_data")
        => last.ret = hist[last.by].wdata

\* C11: a texture's recorded dimensions and format come from the same
\* allocate / reallocate / set_data call and describe the storage the device
\* holds for the texture (the format wherever the storage holds a texel).
C11_RecordedPairDescribesStorage ==
    \A r \in ResIds :
        (LiveRes(r, "Texture_3d") /\ hist[r].wr # "none")
            => /\ res[r].dims = hist[r].tdims /\ res[r].chans = hist[r].tchans
               /\ dev[current].textures[res[r].handle].dims = res[r].dims
               /\ Vol(res[r].dims) > 0
                     => dev[current].textures[res[r].handle].chans = res[r].chans

\* C12: once make_current() on a context has returned an error, no resource
\* with a device handle is created against that context.
C12_NoCreationAfterFailedActivation ==
    [][\A r \in ResIds :
          (res[r].st = "unborn" /\ res'[r].st = "live" /\ res'[r].handle # 0)
              => ctx[res'[r].owner].act # "failed"]_vars

\* C13: set_vertex_buffer(buffer, i, n) changes only slot i of the vertex
\* array it is called on: a slot of a vertex array changes only in a
\* set_vertex_buffer step on that vertex array with that slot's index.
C13_SlotsAreIndependent ==
    [][\A r \in ResIds, j \in Slots :
          (/\ LiveRes(r, "VertexArrayObject") /\ res'[r].st = "live"
           /\ dev'[res[r].owner].vaos[res[r].handle].slots[j]
                 # dev[res[r].owner].vaos[res[r].handle].slots[j])
              => /\ last'.op = "VertexArrayObject_set_vertex_buffer"
                 /\ last'.by = r /\ last'.ret[2] = j]_vars

\* C13 witness: slot 1 of vertex array 1 was just set from buffer 2 while its
\* slot 0 keeps buffer 1 and vertex array 2 keeps its own slot 0.
C13_Witness ==
    /\ last.op = "VertexArrayObject_set_vertex_buffer" /\ last.by = 1 /\ last.ret = <<2, 1, 2>>
    /\ LiveRes(1, "VertexArrayObject") /\ LiveRes(2, "VertexArrayObject")
    /\ dev[1].vaos[res[1].handle].slots[1] = [enabled |-> TRUE, buf |-> 2, n |-> 2]
    /\ dev[1].vaos[res[1].handle].slots[0] = [enabled |-> TRUE, buf |-> 1, n |-> 1]
    /\ dev[1].vaos[res[2].handle].slots[0] = [enabled |-> TRUE, buf |-> 2, n |-> 1]

\* C14: a set_vertex_buffer call that repeats the call before it, on the same
\* vertex array with the same buffer, index and component count, leaves the
\* device and the vertex array as the first call left them.
C14_SetVertexBufferIdempotent ==
    last.rep => last.same

\* C14 witness: the repeated call configured a slot of the device.
C14_Witness ==
    /\ last.rep /\ last.by = 1 /\ last.ret = <<2, 1, 2>>
    /\ dev[1].vaos[res[1].handle].slots[1] = [enabled |-> TRUE, buf |-> 2, n |-> 2]

\* C15: the vertex count is 0 after new() and afterwards the argument of the
\* latest set_vertices, which get_vertices returns; nothing else changes it,
\* and set_vertices issues no device call.
C15_VertexCountIsBookkeeping ==
    /\ \A r \in ResIds :
          LiveRes(r, "VertexArrayObject") => res[r].vertices = hist[r].wsz
    /\ last.op = "VertexArrayObject_get_vertices" => last.ret = <<hist[last.by].wsz>>
    /\ last.op = "VertexArrayObject_set_vertices" => last.n = 0

\* C15 witness: the count set on vertex array 1 is read back after a buffer
\* was attached to it and rewritten, while vertex array 2 keeps count 0.
C15_Witness ==
    /\ last.op = "VertexArrayObject_get_vertices" /\ last.by = 1 /\ last.ret = <<3>>
    /\ dev[1].vaos[res[1].handle].slots[0].buf = 1
    /\ dev[1].buffers[1].bytes = <<1>>
    /\ LiveRes(2, "VertexArrayObject") /\ res[2].vertices = 0

\* C16: Buffer::allocate(ctx, 0) makes the device handle and issues no
\* storage call, and size() returns 0 until the first set_data or
\* reallocate; allocate(ctx, n) with n > 0 issues exactly one storage call.
C16_AllocateZeroDefers ==
    /\ last.op = "Buffer_allocate"
          => /\ last.n = IF last.ret = Usize(0) THEN 0 ELSE 1
             /\ dev[res[last.by].owner].buffers[res[last.by].handle].live
    /\ (last.op = "Buffer_size" /\ hist[last.by].wr = "none") => last.ret = Usize(0)

\* C16 witness: size() is 0 on buffer 2 made by allocate(ctx, 0) while buffer 1
\* holds data and was the buffer bound last.
C16_Witness ==
    /\ last.op = "Buffer_size" /\ last.by = 2 /\ hist[2].wr = "none" /\ last.ret = Usize(0)
    /\ LiveRes(1, "Buffer") /\ hist[1].wr = "set_data" /\ Len(hist[1].wdata) = 2

\* C17: data::<T>() on a buffer whose byte size size_of(T) does not divide
\* returns floor(size / size_of(T)) elements, the leading bytes of the
\* buffer; the remaining bytes are dropped.
C17_ReadTruncatesToWholeElements ==
    (last.op = "Buffer_data" /\ hist[last.by].wr = "set_data")
        => LET bytes == as_u8_slice(hist[last.by].wdata)
               k == Len(bytes) \div last.sz
           IN  /\ Len(last.ret) = k
               /\ as_u8_slice(last.ret) = Prefix(bytes, k * last.sz)

\* C17 witness: three bytes read back as one two-byte element.
C17_Witness ==
    /\ last.op = "Buffer_data" /\ last.by = 1 /\ last.sz = 2
    /\ hist[1].wr = "set_data" /\ hist[1].wsz = 1 /\ hist[1].wdata = << <<1>>, <<0>>, <<1>> >>
    /\ last.ret = << <<1, 0>> >>

\* C18: Renderbuffer::default issues no device call and gives the null
\* handle, which Renderbuffer::new never gives; no device call is issued for
\* the placeholder, its drop included.
C18_PlaceholderIssuesNoCall ==
    /\ last.op = "Renderbuffer_default" => (last.sz = 0 /\ last.n = 0)
    /\ last.op = "Renderbuffer_new" => last.sz # 0
    /\ (last.op = "Renderbuffer_drop" /\ last.sz = 0) => last.n = 0

\* C18 as amended: Renderbuffer::default issues no device call and gives the
\* null handle, which Renderbuffer::new never gives; the only device call
\* issued for the placeholder is the delete_renderbuffer of the null handle
\* when it is dropped while its context is alive, and that call changes no
\* device state.
C18_PlaceholderOnlyNullDelete ==
    /\ last.op = "Renderbuffer_default" => (last.sz = 0 /\ last.n = 0)
    /\ last.op = "Renderbuffer_new" => last.sz # 0
    /\ (last.op = "Renderbuffer_drop" /\ last.sz = 0)
          => /\ last.same
             /\ last.n = hist[last.by].dels
             /\ last.n = IF hist[last.by].orphan THEN 0 ELSE 1

\* C18 witness: the placeholder was dropped while its context is alive, and
\* the Renderbuffer made by new() still has its device object.
C18_Witness ==
    /\ last.op = "Renderbuffer_drop" /\ last.by = 2 /\ last.sz = 0 /\ last.n = 1
    /\ LiveRes(1, "Renderbuffer") /\ res[1].handle # 0
    /\ res[1].owner = res[2].owner
    /\ dev[res[1].owner].rbs[res[1].handle].live


\* C19: with two threads on two Buffers of one context, a data call passes no
\* buffer name and acts on whatever ARRAY_BUFFER holds: it acts on another
\* buffer's handle exactly when another thread's bind fell between the
\* method's bind and the call, and that interleaving is reachable
C19_DataCallFollowsLatestBind ==
    last.op \in {"Buffer_size", "Buffer_set_data", "Buffer_reallocate"} =>
        (last.stray <=> last.cut)

\* thread 1's upload has run while ARRAY_BUFFER held buffer 2's handle: the
\* data is in buffer 2's store and buffer 1's store is still empty
C19_Witness ==
    /\ last.op = "Buffer_set_data" /\ last.by = 1 /\ last.stray
    /\ LiveRes(1, "Buffer") /\ LiveRes(2, "Buffer")
    /\ res[1].owner = res[2].owner
    /\ dev[1].arrayBuf = res[2].handle
    /\ dev[1].buffers[res[2].handle].bytes = as_u8_slice(<< <<1>>, <<1>> >>)
    /\ dev[1].buffers[res[1].handle].bytes = <<>>


C21_SizeSurvivesConversion ==
    /\ last.op = "Buffer_reallocate"
          => /\ ~I32Negative(last.ret)
             /\ I32AsUsize(last.ret) = hist[last.by].wsize
    /\ (last.op = "Buffer_size" /\ hist[last.by].wr = "reallocate")
          => /\ last.ret = hist[last.by].wsize
             /\ last.ret = Usize(Len(dev[current].buffers[res[last.by].handle].bytes))


\* C22: set_data and from_data of texture3d.rs return normally for every
\* data slice, the empty slice with dimension (0,0,0) included: the thread is
\* never unwinding from a panic, a texture written by set_data records the
\* format it was given, and a dropped texture was deleted exactly once
C22_UploadsCompleteNormally ==
    /\ ~panicked
    /\ \A r \in ResIds :
         /\ (LiveRes(r, "Texture3D") /\ hist[r].wr = "set_data")
               => res[r].chans = hist[r].tchans
         /\ (res[r].kind = "Texture3D" /\ res[r].st = "dropped") => hist[r].dels = 1

============================================================================
